---- MODULE Spec2Model ----
(***************************************************************************)
(* Model of the task-analyser scoring engine (tasks/scoring.py) and of the *)
(* two request handlers that drive it (tasks/views.py).                    *)
(*                                                                         *)
(* A task is a Python dict.  It is modelled as a record with one entry per *)
(* key the code reads; every entry is a tagged value [k, v] whose tag k is *)
(* "absent" (key not in the dict), "null" (None) or the Python type of the *)
(* value.  Scores are kept in hundredths (round(score, 2) * 100), so every *)
(* score is an integer.  A "YYYY-MM-DD" string is the triple <<y, m, d>>   *)
(* of the numbers it spells; strptime is ParseDate.                        *)
(***************************************************************************)
EXTENDS Integers, Sequences, FiniteSets, TLC

VARIABLES
    tasks,       \* the task list of the call (request 'tasks' / all_tasks)
    strategy,    \* TaskScorer.strategy
    pc,          \* "init", or the name of the last operation performed
    validation,  \* validation[i]: what validate_task(tasks[i]) returned
    scores,      \* scores[i]: what calculate_score(tasks[i], ...) returned
    alone,       \* alone[i]: what calculate_score(tasks[i]) returned (no all_tasks)
    circular,    \* what detect_circular_dependencies(tasks) returned
    response     \* what analyze_tasks / suggest_tasks responded

vars == <<tasks, strategy, pc, validation, scores, alone, circular, response>>

---------------------------------------------------------------------------
(* Tagged values *)

Absent == [k |-> "absent", v |-> 0]
Null == [k |-> "null", v |-> 0]
Num(n) == [k |-> "num", v |-> n]
Str(s) == [k |-> "str", v |-> s]
DateObj(d) == [k |-> "date", v |-> d]
List(s) == [k |-> "list", v |-> s]

\* task.get(key, default)
Get(task, key, default) == IF task[key].k = "absent" THEN default ELSE task[key]

---------------------------------------------------------------------------
(* Calendar: datetime.strptime(s, '%Y-%m-%d') and date subtraction *)

IsLeap(y) == (y % 4 = 0 /\ y % 100 # 0) \/ y % 400 = 0

DaysInMonth(y, m) ==
    IF m = 2 THEN (IF IsLeap(y) THEN 29 ELSE 28)
    ELSE IF m \in {4, 6, 9, 11} THEN 30 ELSE 31

RECURSIVE DaysBeforeMonth(_, _)
DaysBeforeMonth(y, m) ==
    IF m <= 1 THEN 0 ELSE DaysBeforeMonth(y, m - 1) + DaysInMonth(y, m - 1)

\* strptime raises ValueError unless the string spells a date of the calendar
ParseOk(s) ==
    /\ s[1] \in 1..9999
    /\ s[2] \in 1..12
    /\ s[3] \in 1..DaysInMonth(s[1], s[2])

\* date.toordinal()
ToOrdinal(d) ==
    LET y == d[1] - 1
    IN  365 * y + (y \div 4) - (y \div 100) + (y \div 400)
          + DaysBeforeMonth(d[1], d[2]) + d[3]

\* date.today(): the day the calls are made
Today == <<2025, 3, 1>>

\* (due_date - today).days
DaysUntilDue(due_date) == ToOrdinal(due_date) - ToOrdinal(Today)

---------------------------------------------------------------------------
(* validate_task *)

required_fields == <<"title", "due_date", "estimated_hours", "importance">>

IsMissing(task, field) == task[field].k \in {"absent", "null"}

\* validate_task with the check of the hours ahead of the check of importance
ValidateTaskEffortFirst(task) ==
    LET missing == {i \in 1..Len(required_fields) : IsMissing(task, required_fields[i])}
        first == CHOOSE i \in missing : \A j \in missing : i <= j
        importance == task.importance.v
        estimated_hours == task.estimated_hours.v
    IN  IF missing # {} THEN
            [ok |-> FALSE, msg |-> "Missing required field: " \o required_fields[first]]
        ELSE IF estimated_hours <= 0 THEN
            [ok |-> FALSE,
             msg |-> "Estimated hours must be positive, got " \o ToString(estimated_hours)]
        ELSE IF ~(1 <= importance /\ importance <= 10) THEN
            [ok |-> FALSE,
             msg |-> "Importance must be between 1-10, got " \o ToString(importance)]
        ELSE IF task.due_date.k = "str" /\ ~ParseOk(task.due_date.v) THEN
            [ok |-> FALSE, msg |-> "Invalid date format. Use YYYY-MM-DD"]
        ELSE [ok |-> TRUE, msg |-> ""]

ValidateTask(task) ==
    LET missing == {i \in 1..Len(required_fields) : IsMissing(task, required_fields[i])}
        first == CHOOSE i \in missing : \A j \in missing : i <= j
        importance == task.importance.v
        estimated_hours == task.estimated_hours.v
    IN  IF missing # {} THEN
            [ok |-> FALSE, msg |-> "Missing required field: " \o required_fields[first]]
        ELSE IF ~(1 <= importance /\ importance <= 10) THEN
            [ok |-> FALSE,
             msg |-> "Importance must be between 1-10, got " \o ToString(importance)]
        ELSE IF estimated_hours <= 0 THEN
            [ok |-> FALSE,
             msg |-> "Estimated hours must be positive, got " \o ToString(estimated_hours)]
        ELSE IF task.due_date.k = "str" /\ ~ParseOk(task.due_date.v) THEN
            [ok |-> FALSE, msg |-> "Invalid date format. Use YYYY-MM-DD"]
        ELSE [ok |-> TRUE, msg |-> ""]

---------------------------------------------------------------------------
(* Numbers.  An unrounded score is whole + pow^1.5 (pow = 0 when the score *)
(* has no overdue term): [whole, pow].  Round2 is round(score, 2) * 100.   *)

RECURSIVE IsqrtIn(_, _, _)
\* the largest k in lo..hi with k * k <= x
IsqrtIn(x, lo, hi) ==
    IF lo >= hi THEN lo
    ELSE LET mid == (lo + hi + 1) \div 2
         IN  IF mid * mid <= x THEN IsqrtIn(x, mid, hi) ELSE IsqrtIn(x, lo, mid - 1)

Isqrt(x) == IsqrtIn(x, 0, 46340)

\* round(n ** 1.5, 2) * 100: the hundredth nearest to sqrt(n^3)
RoundPow15(n) ==
    LET x == 10000 * n * n * n
        k == Isqrt(x)
    IN  IF (2 * k + 1) * (2 * k + 1) <= 4 * x THEN k + 1 ELSE k

Plus(score, n) == [score EXCEPT !.whole = @ + n]

Round2(score) == 100 * score.whole + RoundPow15(score.pow)

Max(a, b) == IF a >= b THEN a ELSE b

Abs(n) == IF n < 0 THEN -n ELSE n

RECURSIVE Join(_, _)
\* sep.join(parts)
Join(sep, parts) ==
    IF parts = <<>> THEN ""
    ELSE IF Len(parts) = 1 THEN parts[1]
    ELSE parts[1] \o sep \o Join(sep, Tail(parts))

---------------------------------------------------------------------------
(* The strategy scorers.  Each returns [score, reasons]: the value the     *)
(* Python function returns and the reasons list after its appends.  The    *)
(* emoji that open some fragments are written as bracketed ASCII words and *)
(* the sign "less than or equal" as <=.                                    *)

Elems(seq) == {seq[i] : i \in 1..Len(seq)}

RECURSIVE CountIn(_, _)
CountIn(x, seq) ==
    IF seq = <<>> THEN 0 ELSE (IF Head(seq) = x THEN 1 ELSE 0) + CountIn(x, Tail(seq))

RECURSIVE BlockingEntriesFrom(_, _, _)
BlockingEntriesFrom(task_id, all_tasks, j) ==
    IF j > Len(all_tasks) THEN 0
    ELSE CountIn(task_id.v, Get(all_tasks[j], "dependencies", List(<<>>)).v)
           + BlockingEntriesFrom(task_id, all_tasks, j + 1)

\* blocking_count that counts the entries naming the task, not the tasks
BlockingCountEntries(task_id, all_tasks) ==
    IF task_id.k = "num" THEN BlockingEntriesFrom(task_id, all_tasks, 1) ELSE 0

\* sum(1 for t in all_tasks if task_id in t.get('dependencies', []))
BlockingCount(task_id, all_tasks) ==
    Cardinality({j \in 1..Len(all_tasks) :
        task_id.k = "num"
        /\ task_id.v \in Elems(Get(all_tasks[j], "dependencies", List(<<>>)).v)})

\* urgency_score whose overdue branch lacks the 100 it starts from
UrgencyScoreNoBase(days_until_due) ==
    IF days_until_due < 0 THEN [whole |-> 0, pow |-> Abs(days_until_due)]
    ELSE IF days_until_due = 0 THEN [whole |-> 95, pow |-> 0]
    ELSE IF days_until_due <= 2 THEN [whole |-> 80, pow |-> 0]
    ELSE IF days_until_due <= 7 THEN [whole |-> 50, pow |-> 0]
    ELSE [whole |-> Max(10, 50 - (days_until_due - 7) * 2), pow |-> 0]

UrgencyScore(days_until_due) ==
    IF days_until_due < 0 THEN [whole |-> 100, pow |-> Abs(days_until_due)]
    ELSE IF days_until_due = 0 THEN [whole |-> 95, pow |-> 0]
    ELSE IF days_until_due <= 2 THEN [whole |-> 80, pow |-> 0]
    ELSE IF days_until_due <= 7 THEN [whole |-> 50, pow |-> 0]
    ELSE [whole |-> Max(10, 50 - (days_until_due - 7) * 2), pow |-> 0]

UrgencyReason(days_until_due) ==
    IF days_until_due < 0 THEN
        "[warning] OVERDUE by " \o ToString(Abs(days_until_due)) \o " days"
    ELSE IF days_until_due = 0 THEN "[fire] Due TODAY"
    ELSE IF days_until_due <= 2 THEN
        "[alarm] Due in " \o ToString(days_until_due) \o " days"
    ELSE IF days_until_due <= 7 THEN "[calendar] Due this week"
    ELSE "[calendar] Due in " \o ToString(days_until_due) \o " days"

EffortBonus(estimated_hours) ==
    IF estimated_hours <= 1 THEN 25
    ELSE IF estimated_hours <= 2 THEN 15
    ELSE IF estimated_hours <= 4 THEN 5
    ELSE -5

\* the effort branch without the append of its last tier
EffortReasonNoLong(estimated_hours) ==
    IF estimated_hours <= 1 THEN <<"[zap] Quick win (<=1hr)">>
    ELSE IF estimated_hours <= 2 THEN <<"[sparkles] Fast task (<=2hrs)">>
    ELSE <<>>

EffortReason(estimated_hours) ==
    IF estimated_hours <= 1 THEN <<"[zap] Quick win (<=1hr)">>
    ELSE IF estimated_hours <= 2 THEN <<"[sparkles] Fast task (<=2hrs)">>
    ELSE IF estimated_hours <= 4 THEN <<>>
    ELSE <<"[hourglass] Long task (" \o ToString(estimated_hours) \o "hrs)">>

DependencyBonus(blocking_count) == blocking_count * 20

CalculateSmartBalance(due_date, importance, estimated_hours, all_tasks, task_id) ==
    LET days_until_due == DaysUntilDue(due_date)
        blocking_count == BlockingCount(task_id, all_tasks)
        base == Plus(UrgencyScore(days_until_due),
                     importance * 8 + EffortBonus(estimated_hours))
    IN  [score |-> IF blocking_count > 0
                   THEN Plus(base, DependencyBonus(blocking_count)) ELSE base,
         reasons |-> <<UrgencyReason(days_until_due),
                       "[gem] Importance: " \o ToString(importance) \o "/10">>
                     \o EffortReason(estimated_hours)
                     \o (IF blocking_count > 0
                         THEN <<"[unlock] Unblocks " \o ToString(blocking_count)
                                  \o " task(s)">>
                         ELSE <<>>)]

\* _calculate_fastest_wins with the importance weight of the importance-first
\* strategy (15) in the place of its own (3)
CalculateFastestWinsHeavyImportance(estimated_hours, importance) ==
    LET speed == IF estimated_hours <= 1 THEN 100
                 ELSE IF estimated_hours <= 2 THEN 70
                 ELSE IF estimated_hours <= 4 THEN 40
                 ELSE 10
    IN  [score |-> [whole |-> speed + importance * 15, pow |-> 0],
         reasons |-> (IF estimated_hours <= 1 THEN <<"[zap] Ultra-fast (<1hr)">>
                      ELSE IF estimated_hours <= 2 THEN <<"[sparkles] Fast (1-2hrs)">>
                      ELSE <<>>)
                     \o <<"Importance: " \o ToString(importance) \o "/10">>]

CalculateFastestWins(estimated_hours, importance) ==
    LET speed == IF estimated_hours <= 1 THEN 100
                 ELSE IF estimated_hours <= 2 THEN 70
                 ELSE IF estimated_hours <= 4 THEN 40
                 ELSE 10
    IN  [score |-> [whole |-> speed + importance * 3, pow |-> 0],
         reasons |-> (IF estimated_hours <= 1 THEN <<"[zap] Ultra-fast (<1hr)">>
                      ELSE IF estimated_hours <= 2 THEN <<"[sparkles] Fast (1-2hrs)">>
                      ELSE <<>>)
                     \o <<"Importance: " \o ToString(importance) \o "/10">>]

CalculateHighImpact(importance, due_date) ==
    LET days_until_due == DaysUntilDue(due_date)
        kicker == IF days_until_due < 0 THEN 30
                  ELSE IF days_until_due <= 3 THEN 15 ELSE 0
    IN  [score |-> [whole |-> importance * 15 + kicker, pow |-> 0],
         reasons |-> <<"[gem] High Impact: " \o ToString(importance) \o "/10">>
                     \o (IF days_until_due < 0 THEN <<"Also overdue">> ELSE <<>>)]

\* _calculate_deadline_driven without its "score += importance * 2"
CalculateDeadlineDrivenNoTieBreak(due_date, importance) ==
    LET days_until_due == DaysUntilDue(due_date)
        urgency == IF days_until_due < 0 THEN 200 + Abs(days_until_due) * 10
                   ELSE IF days_until_due = 0 THEN 180
                   ELSE IF days_until_due <= 7 THEN 150 - days_until_due * 10
                   ELSE Max(20, 100 - days_until_due)
    IN  [score |-> [whole |-> urgency, pow |-> 0],
         reasons |-> <<"[calendar] " \o ToString(days_until_due) \o " days away">>]

CalculateDeadlineDriven(due_date, importance) ==
    LET days_until_due == DaysUntilDue(due_date)
        urgency == IF days_until_due < 0 THEN 200 + Abs(days_until_due) * 10
                   ELSE IF days_until_due = 0 THEN 180
                   ELSE IF days_until_due <= 7 THEN 150 - days_until_due * 10
                   ELSE Max(20, 100 - days_until_due)
    IN  [score |-> [whole |-> urgency + importance * 2, pow |-> 0],
         reasons |-> <<IF days_until_due < 0 THEN
                           "[warning] OVERDUE by " \o ToString(Abs(days_until_due)) \o " days"
                       ELSE IF days_until_due = 0 THEN "[fire] Due TODAY"
                       ELSE IF days_until_due <= 7 THEN
                           "[alarm] Due in " \o ToString(days_until_due) \o " days"
                       ELSE "[calendar] " \o ToString(days_until_due) \o " days away">>]

---------------------------------------------------------------------------
(* calculate_score.  The result is [raised, exc, score, reasons,           *)
(* explanation]; raised = TRUE when a Python exception leaves the call.    *)

Raised(exc) ==
    [raised |-> TRUE, exc |-> exc, score |-> 0, reasons |-> <<>>, explanation |-> ""]

Returned(r) ==
    [raised |-> FALSE, exc |-> "", score |-> Round2(r.score), reasons |-> r.reasons,
     explanation |-> Join(" | ", r.reasons)]

\* what each strategy reads of the (normalised) due date, importance, hours
\* and of the other tasks' dependencies: a value of another type than the
\* arithmetic expects raises TypeError
UsesDueDate(strat) == strat # "fastest_wins"
UsesHours(strat) == strat \notin {"high_impact", "deadline_driven"}
UsesAllTasks(strat) == strat \notin {"fastest_wins", "high_impact", "deadline_driven"}

CalculateScore(strat, task, all_tasks) ==
    LET raw == Get(task, "due_date", Null)
        due_date == IF raw.k = "str" THEN DateObj(raw.v) ELSE raw
        importance == Get(task, "importance", Num(5))
        estimated_hours == Get(task, "estimated_hours", Num(1))
        task_id == Get(task, "id", Num(0))
    IN  IF raw.k = "str" /\ ~ParseOk(raw.v) THEN Raised("ValueError")
        ELSE IF \/ UsesDueDate(strat) /\ due_date.k # "date"
                \/ importance.k # "num"
                \/ UsesHours(strat) /\ estimated_hours.k # "num"
                \/ UsesAllTasks(strat) /\ \E j \in 1..Len(all_tasks) :
                       Get(all_tasks[j], "dependencies", List(<<>>)).k # "list"
        THEN Raised("TypeError")
        ELSE IF strat = "fastest_wins" THEN
            Returned(CalculateFastestWins(estimated_hours.v, importance.v))
        ELSE IF strat = "high_impact" THEN
            Returned(CalculateHighImpact(importance.v, due_date.v))
        ELSE IF strat = "deadline_driven" THEN
            Returned(CalculateDeadlineDriven(due_date.v, importance.v))
        ELSE Returned(CalculateSmartBalance(due_date.v, importance.v, estimated_hours.v,
                                            all_tasks, task_id))

---------------------------------------------------------------------------
(* detect_circular_dependencies *)

\* the key of tasks[i] in task_map: t.get('id', i), i counted from 0
MapKey(ts, i) == Get(ts[i], "id", Num(i - 1)).v

\* task_map.keys(): a dict keeps each key at the place of its first insertion
RECURSIVE MapKeysFrom(_, _, _)
MapKeysFrom(ts, i, keys) ==
    IF i > Len(ts) THEN keys
    ELSE MapKeysFrom(ts, i + 1,
                     IF MapKey(ts, i) \in Elems(keys) THEN keys
                     ELSE Append(keys, MapKey(ts, i)))

MapKeys(ts) == MapKeysFrom(ts, 1, <<>>)

InMap(ts, task_id) == \E i \in 1..Len(ts) : MapKey(ts, i) = task_id

\* task_map.get(task_id): a later task of the same key replaces an earlier one
MapGet(ts, task_id) ==
    ts[CHOOSE i \in 1..Len(ts) :
           /\ MapKey(ts, i) = task_id
           /\ \A j \in 1..Len(ts) : MapKey(ts, j) = task_id => j <= i]

RECURSIVE HasCycle(_, _, _, _)
RECURSIVE HasCycleDeps(_, _, _, _, _)

\* the loop "for dep_id in task.get('dependencies', [])" from its n-th element
\* on; [found, visited, rec_stack] with the sets as the loop left them
HasCycleDeps(deps, n, visited, rec_stack, ts) ==
    IF n > Len(deps) THEN [found |-> FALSE, visited |-> visited, rec_stack |-> rec_stack]
    ELSE IF deps[n] \notin visited THEN
        LET r == HasCycle(deps[n], visited, rec_stack, ts)
        IN  IF r.found THEN r
            ELSE HasCycleDeps(deps, n + 1, r.visited, r.rec_stack, ts)
    ELSE IF deps[n] \in rec_stack THEN
        [found |-> TRUE, visited |-> visited, rec_stack |-> rec_stack]
    ELSE HasCycleDeps(deps, n + 1, visited, rec_stack, ts)

\* has_cycle without its "rec_stack.remove(task_id)"
HasCycleNoRemove(task_id, visited, rec_stack, ts) ==
    LET v == visited \cup {task_id}
        s == rec_stack \cup {task_id}
    IN  IF InMap(ts, task_id)
        THEN HasCycleDeps(Get(MapGet(ts, task_id), "dependencies", List(<<>>)).v,
                          1, v, s, ts)
        ELSE [found |-> FALSE, visited |-> v, rec_stack |-> s]

\* has_cycle(task_id, visited, rec_stack, task_map)
HasCycle(task_id, visited, rec_stack, ts) ==
    LET v == visited \cup {task_id}
        s == rec_stack \cup {task_id}
        r == IF InMap(ts, task_id)
             THEN HasCycleDeps(Get(MapGet(ts, task_id), "dependencies", List(<<>>)).v,
                               1, v, s, ts)
             ELSE [found |-> FALSE, visited |-> v, rec_stack |-> s]
    IN  IF r.found THEN r
        ELSE [found |-> FALSE, visited |-> r.visited,
              rec_stack |-> r.rec_stack \ {task_id}]

\* str(task_id)
StrOf(task_id) == ToString(task_id)

RECURSIVE DetectFrom(_, _, _, _, _)
\* the loop over task_map.keys() from its n-th key on
DetectFrom(keys, n, visited, circ, ts) ==
    IF n > Len(keys) THEN circ
    ELSE IF keys[n] \notin visited THEN
        LET r == HasCycle(keys[n], visited, {}, ts)
        IN  DetectFrom(keys, n + 1, r.visited,
                       IF r.found THEN Append(circ, StrOf(keys[n])) ELSE circ, ts)
    ELSE DetectFrom(keys, n + 1, visited, circ, ts)

DetectCircularDependencies(ts) ==
    \* "for dep_id in" over a value that is no list raises TypeError; the walk
    \* enters every key of task_map, so it meets every task the map holds
    IF \E i \in 1..Len(ts) :
           Get(MapGet(ts, MapKey(ts, i)), "dependencies", List(<<>>)).k # "list"
    THEN [raised |-> TRUE, circular |-> <<>>]
    ELSE [raised |-> FALSE, circular |-> DetectFrom(MapKeys(ts), 1, {}, <<>>, ts)]

---------------------------------------------------------------------------
(* The request handlers: analyze_tasks and suggest_tasks *)

\* the loop "for idx, task in enumerate(tasks)" of both handlers, from task n
\* on: the tasks validate_task accepts, each given its id when it has none.
\* pos is not a key of the Python dict: it records the (1-based) place the
\* task has in the request, so that outputs can be told apart.
\* if 'id' not in task: task['id'] = idx + 1
WithDefaultId(task, n) == IF task.id.k = "absent" THEN [task EXCEPT !.id = Num(n)] ELSE task

RECURSIVE ValidatedFrom(_, _)
ValidatedFrom(ts, n) ==
    IF n > Len(ts) THEN <<>>
    ELSE IF ValidateTask(ts[n]).ok THEN
        <<[task |-> WithDefaultId(ts[n], n), pos |-> n]>> \o ValidatedFrom(ts, n + 1)
    ELSE ValidatedFrom(ts, n + 1)

\* the request's task dicts as the validation loop leaves them
AfterValidation(ts) ==
    [n \in 1..Len(ts) |-> IF ValidateTask(ts[n]).ok THEN WithDefaultId(ts[n], n) ELSE ts[n]]

RECURSIVE ErrorsFrom(_, _)
\* errors.append(f"Task {idx + 1}: {error_msg}")
ErrorsFrom(ts, n) ==
    IF n > Len(ts) THEN <<>>
    ELSE IF ValidateTask(ts[n]).ok THEN ErrorsFrom(ts, n + 1)
    ELSE <<"Task " \o ToString(n) \o ": " \o ValidateTask(ts[n]).msg>>
           \o ErrorsFrom(ts, n + 1)

TasksOf(validated) == [i \in 1..Len(validated) |-> validated[i].task]

\* the scoring loop: {**task, 'priority_score': score, 'explanation': explanation}
ScoredTasks(strat, validated) ==
    [i \in 1..Len(validated) |->
        LET r == CalculateScore(strat, validated[i].task, TasksOf(validated))
        IN  [task |-> validated[i].task, pos |-> validated[i].pos, raised |-> r.raised,
             priority_score |-> r.score, explanation |-> r.explanation]]

\* a sort that puts x ahead of the elements of its own score
InsertAheadOfTies(x, sorted) ==
    LET before == {i \in 1..Len(sorted) : sorted[i].priority_score > x.priority_score}
        n == IF before = {} THEN 0 ELSE CHOOSE i \in before : \A j \in before : j <= i
    IN  SubSeq(sorted, 1, n) \o <<x>> \o SubSeq(sorted, n + 1, Len(sorted))

\* list.sort(key=priority_score, reverse=True): stable, so x goes behind every
\* element that does not score less
InsertByScore(x, sorted) ==
    LET before == {i \in 1..Len(sorted) : sorted[i].priority_score >= x.priority_score}
        n == IF before = {} THEN 0 ELSE CHOOSE i \in before : \A j \in before : j <= i
    IN  SubSeq(sorted, 1, n) \o <<x>> \o SubSeq(sorted, n + 1, Len(sorted))

RECURSIVE SortFrom(_, _, _)
SortFrom(seq, n, sorted) ==
    IF n > Len(seq) THEN sorted
    ELSE SortFrom(seq, n + 1, InsertByScore(seq[n], sorted))

SortByScore(seq) == SortFrom(seq, 1, <<>>)

NoResponse ==
    [status |-> 0, error |-> "", details |-> <<>>, tasks |-> <<>>, strategy_used |-> "",
     total_tasks |-> 0, has_warnings |-> FALSE, circular_dependencies |-> <<>>,
     has_validation_errors |-> FALSE, validation_errors |-> <<>>, suggestions |-> <<>>]

\* an exception nothing catches leaves the view: the server answers 500
ServerError == [NoResponse EXCEPT !.status = 500]

AnalyzeResponse(ts, strat) ==
    LET validated == ValidatedFrom(ts, 1)
        errors == ErrorsFrom(ts, 1)
        circ == DetectCircularDependencies(TasksOf(validated))
        scored == ScoredTasks(strat, validated)
        sorted == SortByScore(scored)
    IN  IF errors # <<>> /\ validated = <<>> THEN
            [NoResponse EXCEPT !.status = 400,
                               !.error = "All tasks have validation errors",
                               !.details = errors]
        ELSE IF circ.raised \/ \E i \in 1..Len(scored) : scored[i].raised THEN ServerError
        ELSE [NoResponse EXCEPT !.status = 200,
                                !.tasks = sorted,
                                !.strategy_used = strat,
                                !.total_tasks = Len(sorted),
                                !.has_warnings = (circ.circular # <<>>),
                                !.circular_dependencies = circ.circular,
                                !.has_validation_errors = (errors # <<>>),
                                !.validation_errors = errors]

\* _generate_recommendation (the emoji that open the sentences are left out)
GenerateRecommendation(rank, task) ==
    IF rank = 1 THEN
        "START HERE: '" \o task.title.v \o "' is your highest priority task right now."
    ELSE IF rank = 2 THEN
        "NEXT UP: After completing your top task, move to '" \o task.title.v \o "'."
    ELSE "THEN: '" \o task.title.v \o "' should be tackled third to maintain momentum."

SuggestResponse(ts, strat) ==
    LET validated == ValidatedFrom(ts, 1)
        scored == ScoredTasks(strat, validated)
        sorted == SortByScore(scored)
        top_tasks == SubSeq(sorted, 1, IF Len(sorted) < 3 THEN Len(sorted) ELSE 3)
    IN  IF validated = <<>> THEN
            [NoResponse EXCEPT !.status = 400, !.error = "No valid tasks provided"]
        ELSE IF \E i \in 1..Len(scored) : scored[i].raised THEN ServerError
        ELSE [NoResponse EXCEPT
                !.status = 200,
                !.strategy_used = strat,
                !.suggestions =
                    [rank \in 1..Len(top_tasks) |->
                        [rank |-> rank,
                         task |-> [id |-> top_tasks[rank].task.id,
                                   title |-> top_tasks[rank].task.title,
                                   due_date |-> top_tasks[rank].task.due_date,
                                   estimated_hours |-> top_tasks[rank].task.estimated_hours,
                                   importance |-> top_tasks[rank].task.importance],
                         pos |-> top_tasks[rank].pos,
                         priority_score |-> top_tasks[rank].priority_score,
                         why_this_task |-> top_tasks[rank].explanation,
                         recommendation |->
                             GenerateRecommendation(rank, top_tasks[rank].task)]]]

---------------------------------------------------------------------------
(* The state machine: one call of the engine, or one request, per step *)

NoDetect == [done |-> FALSE, raised |-> FALSE, circular |-> <<>>]

Start(ts, strat) ==
    /\ tasks = ts
    /\ strategy = strat
    /\ pc = "init"
    /\ validation = <<>>
    /\ scores = <<>>
    /\ alone = <<>>
    /\ circular = NoDetect
    /\ response = NoResponse

\* scorer.validate_task(tasks[i]), the tasks taken in order
DoValidateTask ==
    /\ Len(validation) < Len(tasks)
    /\ validation' = Append(validation, ValidateTask(tasks[Len(validation) + 1]))
    /\ pc' = "validate_task"
    /\ UNCHANGED <<tasks, strategy, scores, alone, circular, response>>

\* scorer.calculate_score(tasks[i], tasks), the tasks taken in order
DoCalculateScore(i) ==
    /\ i = Len(scores) + 1
    /\ i <= Len(tasks)
    /\ scores' = Append(scores, CalculateScore(strategy, tasks[i], tasks))
    /\ pc' = "calculate_score"
    /\ UNCHANGED <<tasks, strategy, validation, alone, circular, response>>

\* scorer.calculate_score(tasks[i]): all_tasks is None, so []
DoCalculateScoreAlone(i) ==
    /\ i = Len(alone) + 1
    /\ i <= Len(tasks)
    /\ alone' = Append(alone, CalculateScore(strategy, tasks[i], <<>>))
    /\ pc' = "calculate_score"
    /\ UNCHANGED <<tasks, strategy, validation, scores, circular, response>>

\* scorer.detect_circular_dependencies(tasks)
DoDetect ==
    /\ ~circular.done
    /\ circular' = [done |-> TRUE,
                    raised |-> DetectCircularDependencies(tasks).raised,
                    circular |-> DetectCircularDependencies(tasks).circular]
    /\ pc' = "detect_circular_dependencies"
    /\ UNCHANGED <<tasks, strategy, validation, scores, alone, response>>

\* POST /api/tasks/analyze/
AnalyzeTasks ==
    /\ response.status = 0
    /\ response' = AnalyzeResponse(tasks, strategy)
    /\ tasks' = AfterValidation(tasks)
    /\ pc' = "analyze_tasks"
    /\ UNCHANGED <<strategy, validation, scores, alone, circular>>

\* POST /api/tasks/suggest/
SuggestTasks ==
    /\ response.status = 0
    /\ response' = SuggestResponse(tasks, strategy)
    /\ tasks' = AfterValidation(tasks)
    /\ pc' = "suggest_tasks"
    /\ UNCHANGED <<strategy, validation, scores, alone, circular>>

Strategies == {"smart_balance", "fastest_wins", "high_impact", "deadline_driven"}

MkTask(title, due_date, estimated_hours, importance, dependencies, id) ==
    [title |-> title, due_date |-> due_date, estimated_hours |-> estimated_hours,
     importance |-> importance, dependencies |-> dependencies, id |-> id]

---------------------------------------------------------------------------
(* SpecDetect: the cycle detector on task sets of NumTasks tasks that hold *)
(* at most MaxEdges dependency entries between them, as the unit test      *)
(* builds them: dicts of 'id' and 'dependencies' only.  Task i has id i;   *)
(* at most one task has no 'id' key.  Id NumTasks + 1 is of no task.       *)

NumTasks == 3
MaxEdges == 3

RECURSIVE ListsOver(_, _)
\* the lists of at most n elements of S
ListsOver(S, n) ==
    IF n = 0 THEN {<<>>}
    ELSE ListsOver(S, n - 1)
           \cup {Append(l, x) : l \in {m \in ListsOver(S, n - 1) : Len(m) = n - 1}, x \in S}

RECURSIVE DepAssign(_, _, _)
\* the ways to give n tasks dependency lists over S of e entries in all at most
DepAssign(S, n, e) ==
    IF n = 0 THEN {<<>>}
    ELSE UNION {{Append(rest, l) : rest \in DepAssign(S, n - 1, e - Len(l))} :
                    l \in ListsOver(S, e)}

GraphTask(i, deps, has_id) ==
    MkTask(Absent, Absent, Absent, Absent, List(deps), IF has_id THEN Num(i) ELSE Absent)

InitDetect ==
    \E a \in DepAssign(1..(NumTasks + 1), NumTasks, MaxEdges), no_id \in 0..NumTasks :
        Start([i \in 1..NumTasks |-> GraphTask(i, a[i], i # no_id)], "smart_balance")

NextDetect == DoDetect

SpecDetect == InitDetect /\ [][NextDetect]_vars

---------------------------------------------------------------------------
(* SpecValidate: validate_task and calculate_score on one task whose keys  *)
(* may be missing, null, out of range or of another type than expected.    *)
(* Importance and hours are numbers wherever they are present.             *)

MinImportance == 1
MaxImportance == 10

TitlesTried == {Absent, Null, Str("x")}

DueDatesTried ==
    {Absent, Null, Num(20250301), DateObj(<<2025, 3, 4>>),
     Str(<<2025, 3, 1>>), Str(<<2025, 2, 28>>), Str(<<2025, 2, 29>>), Str(<<2025, 13, 1>>)}

HoursTried == {Absent, Null, Num(-1), Num(0), Num(1), Num(5)}

ImportanceTried ==
    {Absent, Null, Num(MinImportance - 1), Num(MinImportance), Num(MaxImportance),
     Num(MaxImportance + 1)}

DependenciesTried == {Absent, Null, List(<<>>), List(<<1, 9>>)}

IdsTried == {Absent, Num(1)}

InitValidate ==
    \E title \in TitlesTried, due_date \in DueDatesTried, estimated_hours \in HoursTried,
       importance \in ImportanceTried, dependencies \in DependenciesTried, id \in IdsTried,
       strat \in Strategies :
        Start(<<MkTask(title, due_date, estimated_hours, importance, dependencies, id)>>,
              strat)

NextValidate == DoValidateTask \/ DoCalculateScore(1)

SpecValidate == InitValidate /\ [][NextValidate]_vars

---------------------------------------------------------------------------
(* The scoring specifications.  Due dates are the "YYYY-MM-DD" strings of  *)
(* the days at most MaxDays before or after today, and of three days far   *)
(* from it.                                                                *)

MaxDays == 8

CalendarDates == {d \in {<<2025, m, n>> : m \in 1..5, n \in 1..31} : ParseOk(d)}

\* 35 days overdue, and due in 27 and in 85 days, where the urgency of the
\* balanced and of the deadline-first strategy have reached their floors
FarDates == {<<2025, 1, 25>>, <<2025, 3, 28>>, <<2025, 5, 25>>}

DueWindow == {d \in CalendarDates : Abs(DaysUntilDue(d)) <= MaxDays} \cup FarDates

\* one value of each tier of the effort bonus
HoursTiers == {1, 2, 4, 5}

ImportanceRange == MinImportance..MaxImportance

\* a task of id 3 that may list the tasks of id 1 among its dependencies
Dependent(deps) == MkTask(Str("d"), Str(Today), Num(1), Num(5), List(deps), Num(3))

DependentDeps == {<<>>, <<1>>, <<9, 1>>}

(* SpecUrgency: two tasks that differ in nothing but the due date, scored  *)
(* one after the other against the same task list.                         *)
InitUrgency ==
    \E due1 \in DueWindow, due2 \in DueWindow, importance \in {MinImportance, MaxImportance},
       hours \in HoursTiers, deps \in {<<>>, <<1>>}, ddeps \in DependentDeps,
       strat \in Strategies :
        Start(<<MkTask(Str("x"), Str(due1), Num(hours), Num(importance), List(deps), Num(1)),
                MkTask(Str("x"), Str(due2), Num(hours), Num(importance), List(deps), Num(1)),
                Dependent(ddeps)>>, strat)

NextPair == \E i \in 1..2 : DoCalculateScore(i)

SpecUrgency == InitUrgency /\ [][NextPair]_vars

(* SpecImportance: two tasks that differ in nothing but importance *)
InitImportance ==
    \E due \in DueWindow, imp1 \in ImportanceRange, imp2 \in ImportanceRange,
       hours \in HoursTiers, ddeps \in {<<>>, <<1>>}, strat \in Strategies :
        Start(<<MkTask(Str("x"), Str(due), Num(hours), Num(imp1), List(ddeps), Num(1)),
                MkTask(Str("x"), Str(due), Num(hours), Num(imp2), List(ddeps), Num(1)),
                Dependent(ddeps)>>, strat)

SpecImportance == InitImportance /\ [][NextPair]_vars

(* SpecEffort: two tasks under the balanced or the fastest-first strategy. *)
(* The second has more estimated hours, and either the importance, due    *)
(* date and dependencies of the first or others.                           *)
OtherDueDates == {Today, <<2025, 1, 25>>}

InitEffort ==
    \E due1 \in DueWindow, imp1 \in ImportanceRange, hours1 \in HoursTiers,
       deps1 \in {<<>>, <<1>>},
       strat \in {"smart_balance", "fastest_wins"} :
      \E hours2 \in {h \in HoursTiers : h > hours1},
         due2 \in {due1} \cup OtherDueDates,
         imp2 \in {imp1, MinImportance, MaxImportance},
         deps2 \in {deps1, <<2>>} :
        Start(<<MkTask(Str("x"), Str(due1), Num(hours1), Num(imp1), List(deps1), Num(1)),
                MkTask(Str("x"), Str(due2), Num(hours2), Num(imp2), List(deps2), Num(1)),
                Dependent(<<>>)>>, strat)

SpecEffort == InitEffort /\ [][NextPair]_vars

(* SpecBlocking: a task of id 1 scored under the balanced strategy, with   *)
(* and without a task list of three tasks (itself and the tasks of ids 2   *)
(* and 3) whose dependency lists hold at most MaxEdges entries in all.     *)
InitBlocking ==
    \E due \in DueWindow, importance \in {MinImportance, MaxImportance}, hours \in HoursTiers,
       a \in DepAssign({1, 9}, 3, MaxEdges) :
        Start([i \in 1..3 |->
                 MkTask(Str("x"), Str(due), Num(hours), Num(importance), List(a[i]), Num(i))],
              "smart_balance")

NextBlocking == DoCalculateScore(1) \/ DoCalculateScoreAlone(1)

SpecBlocking == InitBlocking /\ [][NextBlocking]_vars

---------------------------------------------------------------------------
(* Spec: one request of at most MaxRequest tasks to analyze_tasks or to    *)
(* suggest_tasks.  Each task of the request is one of four dicts: two that *)
(* validate_task accepts (one with its own id, one without), one that it   *)
(* refuses, and one that it accepts although its due date is a number.     *)

MaxRequest == 3

RequestDeps == {<<>>, <<1>>, <<2>>}

RequestTasks(i, deps) ==
    {MkTask(Str("a"), Str(<<2025, 2, 28>>), Num(1), Num(5), List(deps), Num(i)),
     MkTask(Str("b"), Str(Today), Num(5), Num(5), List(deps), Absent),
     MkTask(Str("e"), Str(<<2025, 2, 30>>), Num(0), Num(MaxImportance + 1), List(deps), Absent),
     MkTask(Str("f"), Num(20250301), Num(1), Num(5), List(deps), Num(i))}

RECURSIVE Requests(_)
\* the requests of exactly n tasks
Requests(n) ==
    IF n = 0 THEN {<<>>}
    ELSE {Append(r, t) : r \in Requests(n - 1),
                         t \in UNION {RequestTasks(n, deps) : deps \in RequestDeps}}

Init ==
    \E n \in 0..MaxRequest : \E ts \in Requests(n), strat \in Strategies : Start(ts, strat)

Next == AnalyzeTasks \/ SuggestTasks

Spec == Init /\ [][Next]_vars

(* SpecIds: one request of 1 to MaxRequest tasks, under the balanced        *)
(* strategy, to analyze_tasks or to suggest_tasks.  Each task is a dict    *)
(* that validate_task accepts, with no 'id' key or with an id of           *)
(* 1..MaxRequest, or a dict that it refuses.                               *)
IdsSupplied == {Absent} \cup {Num(j) : j \in 1..MaxRequest}

IdTasks(deps) ==
    {MkTask(Str("a"), Str(<<2025, 2, 28>>), Num(1), Num(5), List(deps), id) : id \in IdsSupplied}
      \cup {MkTask(Str("e"), Str(<<2025, 2, 30>>), Num(0), Num(MaxImportance + 1),
                    List(<<>>), Absent)}

RECURSIVE IdRequests(_)
\* the requests of exactly n tasks
IdRequests(n) ==
    IF n = 0 THEN {<<>>}
    ELSE {Append(r, t) : r \in IdRequests(n - 1),
                         t \in UNION {IdTasks(deps) : deps \in RequestDeps}}

InitIds == \E n \in 1..MaxRequest : \E ts \in IdRequests(n) : Start(ts, "smart_balance")

SpecIds == InitIds /\ [][Next]_vars

---------------------------------------------------------------------------
(* The dependency graph of a task set, for the claims about the detector:  *)
(* an edge leads from a task to each task of the set whose id it lists.    *)

AllHaveIds(ts) == \A i \in 1..Len(ts) : ts[i].id.k = "num"

DistinctIds(ts) ==
    /\ AllHaveIds(ts)
    /\ \A i, j \in 1..Len(ts) : ts[i].id.v = ts[j].id.v => i = j

DepsOf(task) == Elems(Get(task, "dependencies", List(<<>>)).v)

Successors(ts, S) == {j \in 1..Len(ts) : \E i \in S : ts[j].id.v \in DepsOf(ts[i])}

RECURSIVE ReachWithin(_, _, _)
\* the tasks that 1..n edges lead to from the tasks of S
ReachWithin(ts, S, n) ==
    IF n = 0 THEN {}
    ELSE Successors(ts, S) \cup ReachWithin(ts, Successors(ts, S), n - 1)

OnCycle(ts, i) == i \in ReachWithin(ts, {i}, Len(ts))

HasDanglingEdge(ts) ==
    \E i \in 1..Len(ts) : \E d \in DepsOf(ts[i]) : \A j \in 1..Len(ts) : ts[j].id.v # d

Detected == circular.done /\ ~circular.raised /\ DistinctIds(tasks)

\* C1: every task that lies on a directed cycle of the dependency graph has
\* its id in the list detect_circular_dependencies returns.
C1_AllCycleMembersReported ==
    Detected =>
        \A i \in 1..Len(tasks) :
            OnCycle(tasks, i) => StrOf(tasks[i].id.v) \in Elems(circular.circular)

\* C2: every id that detect_circular_dependencies returns is the id of a task
\* that lies on a directed cycle of the dependency graph.
C2_OnlyCycleMembersReported ==
    Detected =>
        \A n \in 1..Len(circular.circular) :
            \E i \in 1..Len(tasks) :
                /\ StrOf(tasks[i].id.v) = circular.circular[n]
                /\ OnCycle(tasks, i)

\* C3: for a task set of distinct ids, detect_circular_dependencies returns a
\* non-empty list if and only if the dependency graph between the tasks of
\* the set has a directed cycle.
C3_NonEmptyIffCycle ==
    Detected =>
        ((circular.circular # <<>>) <=> \E i \in 1..Len(tasks) : OnCycle(tasks, i))

\* a cycle that the first task walked is not on, in a set that also has an
\* edge to an id of no task, is reported
C3_Witness ==
    /\ Detected
    /\ circular.circular # <<>>
    /\ ~OnCycle(tasks, 1)
    /\ \E i \in 1..Len(tasks) : OnCycle(tasks, i)
    /\ HasDanglingEdge(tasks)

\* two tasks share a dependency that is resolved when the second reaches it,
\* and nothing is reported
C3_WitnessShared ==
    /\ Detected
    /\ circular.circular = <<>>
    /\ \E i, j, d \in 1..Len(tasks) :
          i # j /\ tasks[d].id.v \in DepsOf(tasks[i]) \cap DepsOf(tasks[j])

---------------------------------------------------------------------------
(* Claims about validate_task and about scoring what it accepts *)

Present(task, field) == task[field].k \notin {"absent", "null"}

ImportanceInRange(task) == task.importance.v \in MinImportance..MaxImportance

DateStringFails(task) == task.due_date.k = "str" /\ ~ParseOk(task.due_date.v)

Acceptable(task) ==
    /\ \A f \in {"title", "due_date", "estimated_hours", "importance"} : Present(task, f)
    /\ ImportanceInRange(task)
    /\ task.estimated_hours.v > 0
    /\ ~DateStringFails(task)

ExpectedError(task) ==
    IF ~Present(task, "title") THEN "Missing required field: title"
    ELSE IF ~Present(task, "due_date") THEN "Missing required field: due_date"
    ELSE IF ~Present(task, "estimated_hours") THEN "Missing required field: estimated_hours"
    ELSE IF ~Present(task, "importance") THEN "Missing required field: importance"
    ELSE IF ~ImportanceInRange(task) THEN
        "Importance must be between 1-10, got " \o ToString(task.importance.v)
    ELSE IF task.estimated_hours.v <= 0 THEN
        "Estimated hours must be positive, got " \o ToString(task.estimated_hours.v)
    ELSE "Invalid date format. Use YYYY-MM-DD"

\* C5: validate_task accepts a task, with an empty message, exactly when its
\* four required fields are present and not null, importance is in 1..10, the
\* hours are positive and the due date is no string that fails to parse;
\* otherwise it returns False and the message of the first check that fails,
\* in the order missing field (title, due_date, estimated_hours, importance),
\* importance range, hours, date.  The dependencies play no part.
C5_ValidateTask ==
    \A i \in 1..Len(validation) :
        /\ validation[i].ok <=> Acceptable(tasks[i])
        /\ validation[i].ok => validation[i].msg = ""
        /\ ~validation[i].ok => validation[i].msg = ExpectedError(tasks[i])

\* a task that fails the range check, the hours check and the date check at
\* once, with dependencies that are no list, is refused for its importance
C5_Witness ==
    /\ Len(validation) = 1
    /\ tasks[1].importance = Num(MaxImportance + 1)
    /\ tasks[1].estimated_hours = Num(0)
    /\ DateStringFails(tasks[1])
    /\ tasks[1].dependencies = Null
    /\ validation[1] = [ok |-> FALSE, msg |-> "Importance must be between 1-10, got 11"]

\* C7: calculate_score returns a score and an explanation, and raises
\* nothing, for every task validate_task accepts, under every strategy.
C7_ScoringNeverRaises ==
    \A i \in 1..Len(scores) :
        (i <= Len(validation) /\ validation[i].ok) => ~scores[i].raised

---------------------------------------------------------------------------
(* Claims about the scores *)

BothScored == Len(scores) = 2 /\ ~scores[1].raised /\ ~scores[2].raised

DueIn(task) == DaysUntilDue(task.due_date.v)

\* the tasks of the list that name the task's id among their dependencies
Listing(ts, task) == {j \in 1..Len(ts) : task.id.v \in DepsOf(ts[j])}

UnblocksFragment(k) == "[unlock] Unblocks " \o ToString(k) \o " task(s)"

\* C4: under the balanced strategy a task that exactly k tasks of all_tasks
\* list scores what it scores when no task lists it, plus 20 * k; its
\* explanation is the same when k = 0 and is the same followed by the
\* fragment "Unblocks k task(s)" when k > 0.
C4_BlockingBonus ==
    (strategy = "smart_balance" /\ Len(scores) >= 1 /\ Len(alone) >= 1) =>
        LET k == Cardinality(Listing(tasks, tasks[1]))
        IN  /\ scores[1].score = alone[1].score + 100 * 20 * k
            /\ k = 0 => scores[1].reasons = alone[1].reasons
            /\ k > 0 => /\ scores[1].reasons
                             = Append(alone[1].reasons, UnblocksFragment(k))
                        /\ scores[1].explanation
                             = alone[1].explanation \o " | " \o UnblocksFragment(k)

\* an overdue task that two tasks list, one of them twice
C4_Witness ==
    /\ strategy = "smart_balance" /\ Len(scores) = 1 /\ Len(alone) = 1
    /\ DueIn(tasks[1]) < 0
    /\ Cardinality(Listing(tasks, tasks[1])) = 2
    /\ \E j \in 1..Len(tasks) : tasks[j].dependencies.v = <<1, 1>>
    /\ scores[1].score = alone[1].score + 4000

\* C9: of two tasks that differ only in the due date, the overdue one scores
\* more than the one due in the future, under the balanced and under the
\* deadline-first strategy.
C9_OverdueAboveFuture ==
    (BothScored /\ strategy \in {"smart_balance", "deadline_driven"}
       /\ DueIn(tasks[1]) < 0 /\ DueIn(tasks[2]) > 0)
    => scores[1].score > scores[2].score

\* one day overdue against due tomorrow, under the balanced strategy
C9_Witness ==
    /\ BothScored /\ strategy = "smart_balance"
    /\ DueIn(tasks[1]) = -1 /\ DueIn(tasks[2]) = 1
    /\ scores[1].score = scores[2].score + 2100

\* C10: of two tasks that differ only in importance, the one of higher
\* importance scores more, under the balanced, the importance-first and the
\* deadline-first strategy.
C10_MonotonicInImportance ==
    (BothScored /\ strategy \in {"smart_balance", "high_impact", "deadline_driven"}
       /\ tasks[1].importance.v > tasks[2].importance.v)
    => scores[1].score > scores[2].score

\* importance 2 against 1 under deadline-first, for an overdue task
C10_Witness ==
    /\ BothScored /\ strategy = "deadline_driven"
    /\ tasks[1].importance.v = 2 /\ tasks[2].importance.v = 1
    /\ DueIn(tasks[1]) < 0
    /\ scores[1].score = scores[2].score + 200

\* the two scored tasks differ in nothing but the estimated hours
OnlyHoursDiffer ==
    /\ tasks[1].due_date = tasks[2].due_date
    /\ tasks[1].importance = tasks[2].importance
    /\ tasks[1].dependencies = tasks[2].dependencies

\* C11: a task of at most one estimated hour scores more than a task of more
\* than four hours: under the balanced and the fastest-first strategy when
\* the two differ in nothing else, and under the fastest-first strategy also
\* when they differ in importance, due date and dependencies.
C11_QuickAboveLong ==
    (BothScored /\ tasks[1].estimated_hours.v <= 1 /\ tasks[2].estimated_hours.v > 4
       /\ (strategy = "fastest_wins"
             \/ (strategy = "smart_balance" /\ OnlyHoursDiffer)))
    => scores[1].score > scores[2].score

\* fastest-first: one hour at importance 1 (103) against five hours at
\* importance 10 (40), with another due date and other dependencies
C11_Witness ==
    /\ BothScored /\ strategy = "fastest_wins"
    /\ tasks[1].estimated_hours.v = 1 /\ tasks[2].estimated_hours.v = 5
    /\ tasks[1].importance.v = MinImportance /\ tasks[2].importance.v = MaxImportance
    /\ tasks[1].due_date # tasks[2].due_date
    /\ tasks[1].dependencies # tasks[2].dependencies
    /\ scores[1].score = 10300 /\ scores[2].score = 4000

\* C12: under the deadline-first strategy, of two tasks the one due strictly
\* earlier scores more, whatever the importances, estimated hours and
\* dependencies; importance orders only tasks of the same due date.
C12_EarlierDueAbove ==
    (BothScored /\ strategy = "deadline_driven" /\ DueIn(tasks[1]) < DueIn(tasks[2]))
    => scores[1].score > scores[2].score

\* the fragments of each term of the balanced score, for a task due in d
\* days, of importance i and of h estimated hours
UrgencyFragments(d) ==
    {"[warning] OVERDUE by " \o ToString(Abs(d)) \o " days", "[fire] Due TODAY",
     "[alarm] Due in " \o ToString(d) \o " days", "[calendar] Due this week",
     "[calendar] Due in " \o ToString(d) \o " days"}

ImportanceFragment(i) == "[gem] Importance: " \o ToString(i) \o "/10"

EffortFragments(h) ==
    {"[zap] Quick win (<=1hr)", "[sparkles] Fast task (<=2hrs)",
     "[hourglass] Long task (" \o ToString(h) \o "hrs)"}

\* the explanation of the scored entry is: one urgency fragment, one
\* importance fragment, one effort fragment if effort is TRUE and none if
\* not, one "Unblocks k task(s)" fragment if k > 0 and none if not, in this
\* order and joined by " | "
FragmentsInOrder(entry, task, k, effort) ==
    LET r == entry.reasons
        e == IF effort THEN 1 ELSE 0
        u == IF k > 0 THEN 1 ELSE 0
    IN  /\ Len(r) = 2 + e + u
        /\ r[1] \in UrgencyFragments(DueIn(task))
        /\ r[2] = ImportanceFragment(task.importance.v)
        /\ effort => r[3] \in EffortFragments(task.estimated_hours.v)
        /\ k > 0 => r[Len(r)] = UnblocksFragment(k)
        /\ entry.explanation
             = r[1] \o " | " \o r[2]
                 \o (IF Len(r) >= 3 THEN " | " \o r[3] ELSE "")
                 \o (IF Len(r) >= 4 THEN " | " \o r[4] ELSE "")

\* C13: under the balanced strategy the explanation of every task has one
\* urgency fragment, then one importance fragment, then one effort fragment
\* in each of the four effort tiers (the effort bonus is never zero), then
\* one "Unblocks N task(s)" fragment exactly when the blocking count is
\* above 0, joined by " | ".
C13_FragmentPerTerm ==
    (strategy = "smart_balance" /\ Len(scores) >= 1) =>
        FragmentsInOrder(scores[1], tasks[1], Cardinality(Listing(tasks, tasks[1])),
                         EffortBonus(tasks[1].estimated_hours.v) # 0)

\* C13, amended: as C13, but the effort fragment is there exactly when the
\* estimated hours are at most 2 or above 4; the tier above 2 and up to 4
\* hours adds its bonus of 5 and no fragment.
C13_FragmentPerReportedTerm ==
    (strategy = "smart_balance" /\ Len(scores) >= 1) =>
        FragmentsInOrder(scores[1], tasks[1], Cardinality(Listing(tasks, tasks[1])),
                         tasks[1].estimated_hours.v <= 2 \/ tasks[1].estimated_hours.v > 4)

\* a task of 4 hours due today that one task lists: three fragments
C13_Witness ==
    /\ strategy = "smart_balance" /\ Len(scores) = 1
    /\ tasks[1].estimated_hours.v = 4 /\ DueIn(tasks[1]) = 0
    /\ Cardinality(Listing(tasks, tasks[1])) = 1
    /\ scores[1].reasons
         = <<"[fire] Due TODAY", ImportanceFragment(tasks[1].importance.v),
             UnblocksFragment(1)>>

\* a task of 5 hours that no task lists: the long-task fragment comes third
C13_WitnessLong ==
    /\ strategy = "smart_balance" /\ Len(scores) = 1
    /\ tasks[1].estimated_hours.v = 5
    /\ Cardinality(Listing(tasks, tasks[1])) = 0
    /\ Len(scores[1].reasons) = 3
    /\ scores[1].reasons[3] = "[hourglass] Long task (5hrs)"

---------------------------------------------------------------------------
(* Claims about the request handlers *)

\* the places in the request of the tasks that pass / fail validation
ValidPlaces == {n \in 1..Len(tasks) : Acceptable(tasks[n])}
InvalidPlaces == {n \in 1..Len(tasks) : ~Acceptable(tasks[n])}

Answered == pc \in {"analyze_tasks", "suggest_tasks"} /\ response.status = 200

\* what the handler ranked: the tasks of the analysis, the suggestions
Ranked == IF pc = "analyze_tasks" THEN response.tasks ELSE response.suggestions

\* C6: when analyze_tasks or suggest_tasks answers a request in which some
\* task passes validation, no task that fails validation is in the ranked
\* output and the message of each is in the response; for analyze_tasks the
\* output and the reported errors together are as many as the input tasks.
C6_ValidationFailuresReported ==
    (Answered /\ ValidPlaces # {}) =>
        /\ \A n \in InvalidPlaces :
              /\ \A i \in 1..Len(Ranked) : Ranked[i].pos # n
              /\ ("Task " \o ToString(n) \o ": " \o ExpectedError(tasks[n]))
                    \in Elems(response.validation_errors)
        /\ pc = "analyze_tasks" =>
              Len(response.tasks) + Len(response.validation_errors) = Len(tasks)

\* C8: the ranked output of analyze_tasks holds every validated task exactly
\* once, by priority_score descending, and tasks of equal priority_score
\* stand in the order they have in the input.
C8_RankedOutput ==
    (pc = "analyze_tasks" /\ response.status = 200) =>
        LET out == response.tasks
        IN  /\ Len(out) = Cardinality(ValidPlaces)
            /\ {out[i].pos : i \in 1..Len(out)} = ValidPlaces
            /\ \A i \in 1..Len(out) : out[i].task = tasks[out[i].pos]
            /\ \A i, j \in 1..Len(out) :
                  i < j =>
                     /\ out[i].priority_score >= out[j].priority_score
                     /\ out[i].priority_score = out[j].priority_score
                          => out[i].pos < out[j].pos

\* three tasks ranked, two of them of equal score behind the third which
\* stands last in the input, with a dependency cycle reported
C8_Witness ==
    /\ pc = "analyze_tasks" /\ response.status = 200
    /\ Len(response.tasks) = 3
    /\ response.tasks[1].pos = 3
    /\ response.tasks[2].priority_score = response.tasks[3].priority_score
    /\ response.has_warnings


\* the ids that the caller supplied are pairwise distinct
SuppliedIdsDistinct(ts) ==
    \A i, j \in 1..Len(ts) :
        (ts[i].id.k # "absent" /\ ts[j].id.k # "absent" /\ ts[i].id = ts[j].id) => i = j

\* the tasks that pass validation all have an id, and no two the same
ValidatedIdsDistinct(ts) ==
    \A i, j \in {n \in 1..Len(ts) : Acceptable(ts[n])} :
        /\ ts[i].id.k # "absent"
        /\ ts[i].id = ts[j].id => i = j

\* C14: when the ids that the caller supplied are pairwise distinct, the
\* tasks that analyze_tasks or suggest_tasks has validated and given their
\* default ids (the place in the request, from 1) have pairwise distinct
\* ids.
C14_ValidatedIdsDistinct ==
    [][(pc' \in {"analyze_tasks", "suggest_tasks"} /\ SuppliedIdsDistinct(tasks))
         => ValidatedIdsDistinct(tasks')]_vars

====
